---- MODULE Spec2Model ----
(***************************************************************************)
(* State-machine model of class MediasoupClient                            *)
(* (src/app/mediasoupClient.ts, lines 11-401).                             *)
(*                                                                         *)
(* One action is one JavaScript task: a public method call, the delivery   *)
(* of one WebSocket message, or one media-engine callback, together with   *)
(* every promise continuation (microtask) it makes runnable.  Handlers are *)
(* written as operators on a record S that holds the fields of the object; *)
(* S.micro is the microtask queue of the running task, drained by          *)
(* RunMicrotasks before the task ends.                                     *)
(*                                                                         *)
(* The media engine (mediasoup-client Device / Transport) is the external  *)
(* collaborator.  Its contract as used here:                               *)
(*   - Device.createSendTransport / createRecvTransport and the getter     *)
(*     Device.rtpCapabilities throw when the device is not loaded;         *)
(*   - Device.load may fail;                                               *)
(*   - Transport.produce / consume reject on a closed transport, fire the  *)
(*     "connect" event once before the first produce / consume completes,  *)
(*     and run their tasks one at a time per transport;                    *)
(*   - Transport.close closes the Producers / Consumers of the transport   *)
(*     and rejects its pending tasks.                                      *)
(***************************************************************************)
EXTENDS Naturals, Sequences, FiniteSets

\* ---------------------------------------------------------------- bounds
MaxConsumeCalls == 3
MaxProduceCalls == 2
MaxCaps == 2
MaxConsumeCaps == 1
MaxJoined == 2
MaxLeft == 1
MaxLive == 1
MaxDisconnects == 2
MaxLifeConsume == 2
MaxLifeProduce == 1
MaxConnects == 3
MaxAppHandlers == 2

Participants == {"p1", "p2"}

\* The existing-producer lists a joined message may carry (participant, producer).
Announcements ==
    { <<"p1", "a">>, <<"p2", "b">> }

ExistingLists ==
    { <<>>, << <<"p1", "a">> >>, << <<"p2", "b">> >>,
      << <<"p1", "a">>, <<"p2", "b">> >>, << <<"p2", "b">>, <<"p1", "a">> >> }

EventTypes ==
    { "joined", "participantJoined", "newProducer", "participantLeft",
      "producerTransportCreated", "producerTransportConnected", "produced",
      "consumerTransportCreated", "consumerTransportConnected", "consumed" }

VARIABLES
    ws,                        \* this.ws.readyState
    device,                    \* this.device: 0 = undefined, n = the n-th Device object
    devLoading,                \* engine: Device objects whose load() is in flight
    devLoaded,                 \* engine: Device objects that are loaded
    producerTransport,         \* this.producerTransport: 0 = undefined, else transport id
    consumerTransports,        \* this.consumerTransports: participant -> transport id (0 = no entry)
    producers,                 \* this.producers: the producer ids that are keys of the map
    consumers,                 \* this.consumers: the consumer ids that are keys of the map
    eventHandlers,             \* this.eventHandlers: type -> sequence of handlers
    pendingExistingProducers,  \* this.pendingExistingProducers
    consumeQueue,              \* this.consumeQueue: the chained consumeTrack calls, in call order
    produceCalls,              \* the produceTrack calls (their promises), in call order
    transports,                \* engine: every Transport object created, by id
    consumerObjs,              \* engine: every Consumer object created
    producerObjs,              \* engine: every Producer object created
    wire,                      \* requests the server has received and not yet answered
    sent,                      \* history: every message transmitted by send
    announced,                 \* history: every newProducer notification emitted
    resolved,                  \* history: consumeTrack calls in the order they resolved
    known,                     \* history: participants announced and not yet left
    connectCalls,              \* the connect() calls (their promises), in call order
    onopen,                    \* this.ws.onopen: 0 = unset, j = the closure of connect call j
    onerror,                   \* this.ws.onerror: 0 = the logger of line 101, j = reject of call j
    hist                       \* history: counters of environment events

vars ==
    << ws, device, devLoading, devLoaded, producerTransport, consumerTransports,
       producers, consumers, eventHandlers, pendingExistingProducers, consumeQueue,
       produceCalls, transports, consumerObjs, producerObjs, wire, sent, announced,
       resolved, known, connectCalls, onopen, onerror, hist >>

\* The object's state as one record; micro is the running task's microtask queue.
Cur ==
    [ ws |-> ws, device |-> device, devLoading |-> devLoading, devLoaded |-> devLoaded,
      producerTransport |-> producerTransport, consumerTransports |-> consumerTransports,
      producers |-> producers, consumers |-> consumers, eventHandlers |-> eventHandlers,
      pendingExistingProducers |-> pendingExistingProducers,
      consumeQueue |-> consumeQueue, produceCalls |-> produceCalls,
      transports |-> transports, consumerObjs |-> consumerObjs,
      producerObjs |-> producerObjs, wire |-> wire,
      sent |-> sent, announced |-> announced, resolved |-> resolved, known |-> known,
      connectCalls |-> connectCalls, onopen |-> onopen, onerror |-> onerror,
      hist |-> hist, micro |-> <<>> ]

Commit(S) ==
    /\ ws' = S.ws
    /\ device' = S.device
    /\ devLoading' = S.devLoading
    /\ devLoaded' = S.devLoaded
    /\ producerTransport' = S.producerTransport
    /\ consumerTransports' = S.consumerTransports
    /\ producers' = S.producers
    /\ consumers' = S.consumers
    /\ eventHandlers' = S.eventHandlers
    /\ pendingExistingProducers' = S.pendingExistingProducers
    /\ consumeQueue' = S.consumeQueue
    /\ produceCalls' = S.produceCalls
    /\ transports' = S.transports
    /\ consumerObjs' = S.consumerObjs
    /\ producerObjs' = S.producerObjs
    /\ wire' = S.wire
    /\ sent' = S.sent
    /\ announced' = S.announced
    /\ resolved' = S.resolved
    /\ known' = S.known
    /\ connectCalls' = S.connectCalls
    /\ onopen' = S.onopen
    /\ onerror' = S.onerror
    /\ hist' = S.hist

\* Capability state of the session: the state of the Device held in this.device.
CapabilityState(S) ==
    IF S.device = 0 THEN "NotReady"
    ELSE IF S.device \in S.devLoaded THEN "Ready"
    ELSE "Loading"

\* ------------------------------------------------------- signaling: send
\* send(message): transmitted only while the socket is OPEN, dropped otherwise.
\* A transmitted message is logged with the capability state and the socket's
\* readyState at that moment, a dropped one is recorded in hist.dropped;
\* a request the server answers is put on the wire.
Requests ==
    { "createProducerTransport", "connectProducerTransport", "produce",
      "createConsumerTransport", "connectConsumerTransport", "consume" }

\* send without the readyState test of line 111.
send_always(S, type, owner) ==
    [S EXCEPT !.sent = Append(@, [type |-> type, owner |-> owner,
                                  cap |-> CapabilityState(S), ws |-> S.ws]),
              !.wire = IF type \in Requests
                       THEN Append(@, [type |-> type, owner |-> owner])
                       ELSE @]

send(S, type, owner) ==
    IF S.ws = "OPEN"
    THEN [S EXCEPT !.sent = Append(@, [type |-> type, owner |-> owner,
                                       cap |-> CapabilityState(S), ws |-> S.ws]),
                   !.wire = IF type \in Requests
                            THEN Append(@, [type |-> type, owner |-> owner])
                            ELSE @]
    ELSE [S EXCEPT !.hist.dropped = @ \cup {[type |-> type, owner |-> owner]}]

\* ------------------------------------------------------ signaling: connect
\* this.participantId, the constructor's argument.
participantId == "self"

\* joinRoom, lines 131-140.
joinRoom(S) ==
    send(send(S, "join", participantId), "getRtpCapabilities", 0)

\* resolve() of connect call j; at records how many messages had been
\* transmitted by then.
resolveConnect(S, j) ==
    IF S.connectCalls[j].res # "pending" THEN S
    ELSE [S EXCEPT !.connectCalls[j] = [res |-> "resolved", at |-> Len(S.sent)]]

\* connect without the readyState test of line 118.
connect_eager(S) ==
    LET S1 == [S EXCEPT !.connectCalls = Append(@, [res |-> "pending", at |-> 0])]
    IN  resolveConnect(joinRoom(S1), Len(S1.connectCalls))

\* connect, lines 116-129.
connect(S) ==
    LET S1 == [S EXCEPT !.connectCalls = Append(@, [res |-> "pending", at |-> 0])]
        j == Len(S1.connectCalls)
    IN  IF S.ws = "OPEN"
        THEN resolveConnect(joinRoom(S1), j)
        ELSE [S1 EXCEPT !.onopen = j, !.onerror = j]

\* ws.onopen as installed by connect, lines 121-124.
wsOnOpen(S) ==
    IF S.onopen = 0 THEN S
    ELSE resolveConnect(joinRoom(S), S.onopen)

\* ws.onerror: the logger of lines 101-103, or reject of connect (line 125).
wsOnError(S) ==
    IF S.onerror = 0 \/ S.connectCalls[S.onerror].res # "pending" THEN S
    ELSE [S EXCEPT !.connectCalls[S.onerror].res = "rejected"]

\* ------------------------------------------------------ correlation bus
\* A handler is [once, role, owner]: role names the callback's code, owner the
\* call or transport whose closure it is.
on(S, event, h) ==
    [S EXCEPT !.eventHandlers[event] = Append(@, h)]

once(S, event, role, owner) ==
    on(S, event, [once |-> TRUE, role |-> role, owner |-> owner])

IndexOf(list, h) ==
    IF \E i \in 1..Len(list) : list[i] = h
    THEN CHOOSE i \in 1..Len(list) : list[i] = h /\ \A j \in 1..(i - 1) : list[j] # h
    ELSE 0

Splice(list, i) ==
    [j \in 1..(Len(list) - 1) |-> IF j < i THEN list[j] ELSE list[j + 1]]

\* off with splice(index) in place of splice(index, 1): the handlers behind
\* the removed one go too.
off_truncate(S, event, h) ==
    LET index == IndexOf(S.eventHandlers[event], h)
    IN  IF index > 0
        THEN [S EXCEPT !.eventHandlers[event] = SubSeq(@, 1, index - 1)]
        ELSE S

off(S, event, h) ==
    LET index == IndexOf(S.eventHandlers[event], h)
    IN  IF index > 0
        THEN [S EXCEPT !.eventHandlers[event] = Splice(@, index)]
        ELSE S


\* ------------------------------------------------------------ microtasks
Task(kind, a, b) == [kind |-> kind, a |-> a, b |-> b]

defer(S, kind, a, b) ==
    [S EXCEPT !.micro = Append(@, Task(kind, a, b))]

\* ----------------------------------------------------------- media engine
NewTransport(dir, key) ==
    [dir |-> dir, key |-> key, closed |-> FALSE, conn |-> "new", tasks |-> <<>>]

DeviceLoaded(S) == S.device \in S.devLoaded

RECURSIVE RejectTasks(_, _)
\* Transport.close rejects each pending produce / consume task of the transport.
RejectTasks(S, tasks) ==
    IF tasks = <<>> THEN S
    ELSE RejectTasks(defer(S, Head(tasks).reject, Head(tasks).call, "closed"), Tail(tasks))

\* transport.close() that leaves the transport's pending tasks unsettled.
closeTransport_silent(S, t) ==
    IF S.transports[t].closed THEN S
    ELSE [S EXCEPT !.transports[t].closed = TRUE,
                   !.transports[t].tasks = <<>>,
                   !.consumerObjs =
                       { IF c.tr = t THEN [c EXCEPT !.closed = TRUE] ELSE c : c \in @ },
                   !.producerObjs =
                       { IF c.tr = t THEN [c EXCEPT !.closed = TRUE] ELSE c : c \in @ }]

\* transport.close(): the transport and the Producers and Consumers created on
\* it are closed.
closeTransport(S, t) ==
    IF S.transports[t].closed THEN S
    ELSE LET S1 == [S EXCEPT !.transports[t].closed = TRUE,
                             !.transports[t].tasks = <<>>,
                             !.consumerObjs =
                                 { IF c.tr = t THEN [c EXCEPT !.closed = TRUE] ELSE c : c \in @ },
                             !.producerObjs =
                                 { IF c.tr = t THEN [c EXCEPT !.closed = TRUE] ELSE c : c \in @ }]
         IN  RejectTasks(S1, S.transports[t].tasks)

\* ------------------------------------------------------------ consume flow
NewConsumeCall(p) ==
    [p |-> p, st |-> "queued", res |-> "pending", tr |-> 0, failed |-> FALSE, chk |-> ""]

Pending(S, k) == S.consumeQueue[k].res = "pending"

\* createConsumerTransport(key): lines 299-312, up to the suspension.
createConsumerTransport(S, k) ==
    LET S1 == once(S, "consumerTransportCreated", "createConsumerTransport", k)
        S2 == [S1 EXCEPT !.consumeQueue[k].st = "awaitCT"]
    IN  send(S2, "createConsumerTransport", k)

\* The promise executor of _consumeTrack, lines 271-296: the consumed listener is
\* registered, then the consume message is built (reading device.rtpCapabilities,
\* which throws on a device that is not loaded) and sent.
requestConsume(S, k, t) ==
    LET S1 == once(S, "consumed", "consumed", k)
        S2 == [S1 EXCEPT !.consumeQueue[k].tr = t]
    IN  IF ~DeviceLoaded(S2)
        THEN defer(S2, "failConsume", k, "null")
        ELSE send([S2 EXCEPT !.consumeQueue[k].st = "awaitConsumed"], "consume", k)

\* _consumeTrack without the lookup of line 265: a transport is always created.
_consumeTrack_nomemo(S, k) ==
    LET S1 == [S EXCEPT !.consumeQueue[k].chk = CapabilityState(S)]
    IN  IF S.device = 0
        THEN defer(S1, "failConsume", k, "null")
        ELSE createConsumerTransport(S1, k)

\* _consumeTrack, lines 256-269.
_consumeTrack(S, k) ==
    LET S1 == [S EXCEPT !.consumeQueue[k].chk = CapabilityState(S)]
        t == S.consumerTransports[S.consumeQueue[k].p]
    IN  IF S.device = 0
        THEN defer(S1, "failConsume", k, "null")
        ELSE IF t = 0
             THEN createConsumerTransport(S1, k)
             ELSE requestConsume(S1, k, t)

\* The queue's chain, lines 249-251: the then-callback of call k runs once the
\* link of call k-1 has settled.
Runnable(S) ==
    { k \in 1..Len(S.consumeQueue) :
        /\ S.consumeQueue[k].st = "queued"
        /\ \A j \in 1..(k - 1) : S.consumeQueue[j].res # "pending" }

startNext(S) ==
    IF Runnable(S) = {} THEN S
    ELSE _consumeTrack(S, CHOOSE k \in Runnable(S) : \A j \in Runnable(S) : k <= j)

\* A call's promise settles (resolve, or a throw caught by .catch(() => null));
\* settling a settled promise does nothing.
settleConsume(S, k, res, failed) ==
    IF ~Pending(S, k) THEN S
    ELSE startNext([S EXCEPT !.consumeQueue[k].res = res,
                             !.consumeQueue[k].st = "done",
                             !.consumeQueue[k].failed = failed,
                             !.resolved = Append(@, k)])

\* consumeTrack without the queue: the call starts at once.
consumeTrack_unqueued(S, p) ==
    LET S1 == [S EXCEPT !.consumeQueue = Append(@, NewConsumeCall(p))]
    IN  _consumeTrack(S1, Len(S1.consumeQueue))

\* consumeTrack, lines 245-254.
consumeTrack(S, p) ==
    defer([S EXCEPT !.consumeQueue = Append(@, NewConsumeCall(p))], "startNext", 0, "")

\* setupConsumerTransport, lines 314-338, called by the consumerTransportCreated
\* listener of call k (lines 301-305); createRecvTransport throws unless loaded.
setupConsumerTransport(S, k) ==
    IF S.device = 0 \/ ~DeviceLoaded(S)
    THEN IF Pending(S, k)
         THEN [S EXCEPT !.consumeQueue[k].st = "stalled", !.consumeQueue[k].failed = TRUE]
         ELSE S
    ELSE LET S1 == [S EXCEPT !.transports =
                        Append(@, NewTransport("recv", S.consumeQueue[k].p))]
         IN  defer(S1, "recvTransportReady", k, Len(S1.transports))

\* Lines 303-304, then _consumeTrack resumes at line 271.
recvTransportReady(S, k, t) ==
    requestConsume([S EXCEPT !.consumerTransports[S.consumeQueue[k].p] = t], k, t)

\* The consumed listener of call k, lines 272-286, up to the await.
consumedListener(S, k, data) ==
    LET t == S.consumeQueue[k].tr
    IN  IF S.transports[t].closed
        THEN defer(S, "failConsume", k, "null")
        ELSE [S EXCEPT !.transports[t].tasks =
                           Append(@, [call |-> k, id |-> data, reject |-> "failConsume",
                                      fired |-> FALSE]),
                       !.consumeQueue[k].st = IF Pending(S, k) THEN "consuming" ELSE @]

\* Lines 280-281.
consumerCreated(S, k, id) ==
    settleConsume([S EXCEPT !.consumers = @ \cup {id}], k, "track", FALSE)

\* The connect listener of a transport, lines 319-331 (recv) and 201-216 (send).
connectListener(S, t) ==
    LET recv == S.transports[t].dir = "recv"
        S1 == once(S, IF recv THEN "consumerTransportConnected"
                      ELSE "producerTransportConnected", "connectCallback", t)
        S2 == [S1 EXCEPT !.transports[t].conn = "connecting"]
    IN  send(S2, IF recv THEN "connectConsumerTransport" ELSE "connectProducerTransport", t)

\* ------------------------------------------------------------ produce flow
NewProduceCall ==
    [st |-> "new", res |-> "pending", err |-> "", chk |-> ""]

rejectProduce(S, j, err) ==
    IF S.produceCalls[j].res # "pending" THEN S
    ELSE [S EXCEPT !.produceCalls[j].res = "rejected",
                   !.produceCalls[j].st = "done",
                   !.produceCalls[j].err = err]

\* createProducerTransport, lines 182-194, up to the suspension.
createProducerTransport(S, j) ==
    LET S1 == once(S, "producerTransportCreated", "createProducerTransport", j)
        S2 == [S1 EXCEPT !.produceCalls[j].st = "awaitPT"]
    IN  send(S2, "createProducerTransport", j)

\* produceTrack, lines 172-176: transport.produce() is called.
startProduce(S, j) ==
    LET t == S.producerTransport
    IN  IF t = 0
        THEN rejectProduce(S, j, "Producer transport not created")
        ELSE IF S.transports[t].closed
        THEN rejectProduce(S, j, "closed")
        ELSE [S EXCEPT !.transports[t].tasks =
                           Append(@, [call |-> j, id |-> 0, reject |-> "failProduce",
                                      fired |-> FALSE]),
                       !.produceCalls[j].st = "producing"]

\* produceTrack, lines 163-170.
produceTrack(S) ==
    LET S1 == [S EXCEPT !.produceCalls = Append(@, NewProduceCall)]
        j == Len(S1.produceCalls)
        S2 == [S1 EXCEPT !.produceCalls[j].chk = CapabilityState(S)]
    IN  IF S.device = 0
        THEN rejectProduce(S2, j, "Device not initialized")
        ELSE IF S.producerTransport = 0
             THEN createProducerTransport(S2, j)
             ELSE startProduce(S2, j)

\* setupProducerTransport, lines 196-241, called by the producerTransportCreated
\* listener of call j (lines 184-187); createSendTransport throws unless loaded.
setupProducerTransport(S, j) ==
    IF S.device = 0 \/ ~DeviceLoaded(S)
    THEN IF S.produceCalls[j].res = "pending"
         THEN [S EXCEPT !.produceCalls[j].st = "stalled"]
         ELSE S
    ELSE LET S1 == [S EXCEPT !.transports = Append(@, NewTransport("send", ""))]
             t == Len(S1.transports)
         IN  defer([S1 EXCEPT !.producerTransport = t], "sendTransportReady", j, t)

\* The produce listener of the transport, lines 218-236, for the task of call j.
produceListener(S, t) ==
    LET j == Head(S.transports[t].tasks).call
        S1 == once(S, "produced", "produceCallback", j)
        S2 == [S1 EXCEPT !.transports[t].tasks[1].fired = TRUE]
    IN  send(S2, "produce", j)

\* callback({ id }) of lines 222-224: the engine finishes the task with a new
\* Producer of that id (call records the produceTrack call it is returned to).
produceCallback(S, j, id) ==
    LET ts == { t \in 1..Len(S.transports) :
                  /\ S.transports[t].tasks # <<>>
                  /\ Head(S.transports[t].tasks).call = j
                  /\ Head(S.transports[t].tasks).reject = "failProduce" }
    IN  IF ts = {} THEN S
        ELSE LET t == CHOOSE t \in ts : TRUE
                 S1 == [S EXCEPT !.transports[t].tasks = Tail(@),
                                 !.producerObjs = @ \cup
                                     {[id |-> id, tr |-> t, closed |-> FALSE, call |-> j]}]
             IN  defer(S1, "producerCreated", j, id)

\* Lines 177-179.
producerCreated(S, j, id) ==
    IF S.produceCalls[j].res # "pending" THEN [S EXCEPT !.producers = @ \cup {id}]
    ELSE [S EXCEPT !.producers = @ \cup {id},
                   !.produceCalls[j].res = "ok",
                   !.produceCalls[j].st = "done"]

\* ------------------------------------------------------ bus: emit
\* The synchronous part of handler h called with arg.
Invoke(S, h, arg) ==
    CASE h.role = "createConsumerTransport" -> setupConsumerTransport(S, h.owner)
      [] h.role = "consumed" -> consumedListener(S, h.owner, arg)
      [] h.role = "connectCallback" -> [S EXCEPT !.transports[h.owner].conn = "ready"]
      [] h.role = "createProducerTransport" -> setupProducerTransport(S, h.owner)
      [] h.role = "produceCallback" -> produceCallback(S, h.owner, arg)
      [] OTHER -> S

\* The log of the bus, kept when hist.trace is on: publish is the latest emit
\* (the handlers registered when it began, the handlers it called, in call
\* order), fired lists every call of a once-wrapper.
logPublish(S, event) ==
    IF ~S.hist.trace THEN S
    ELSE [S EXCEPT !.hist.publish = [event |-> event,
                                     registered |-> S.eventHandlers[event],
                                     invoked |-> <<>>]]

logInvoke(S, event, h) ==
    IF ~S.hist.trace THEN S
    ELSE [S EXCEPT !.hist.publish.invoked = Append(@, h),
                   !.hist.fired = IF h.once THEN Append(@, [event |-> event, h |-> h])
                                  ELSE @]

\* What a handler of the application observes when it is called: the payload,
\* the capability state and, for participantLeft, the participant's entry in
\* consumerTransports and its open transports at that moment.
logObserve(S, event, h, arg) ==
    IF ~S.hist.trace \/ h.role # "app" THEN S
    ELSE LET left == event = "participantLeft"
         IN  [S EXCEPT !.hist.seen = Append(@,
                 [event |-> event, arg |-> arg, cap |-> CapabilityState(S),
                  entry |-> IF left THEN S.consumerTransports[arg] ELSE 0,
                  open |-> IF left
                           THEN { t \in 1..Len(S.transports) :
                                    /\ S.transports[t].key = arg
                                    /\ S.transports[t].dir = "recv"
                                    /\ ~S.transports[t].closed }
                           ELSE {}])]

\* Which reply a one-shot listener of a consumeTrack call is handed, kept when
\* hist.trace is on: the call whose request the reply answers and the call that
\* registered the listener.
logHandOver(S, event, h, arg) ==
    IF ~S.hist.trace \/ h.role \notin {"createConsumerTransport", "consumed"} THEN S
    ELSE [S EXCEPT !.hist.handed =
             @ \cup {[event |-> event, request |-> arg, call |-> h.owner]}]

RECURSIVE forEach(_, _, _, _, _)
\* handlers.forEach: the length is read once; an index that no longer exists
\* (the list shrank under the iteration) is skipped.  A once-wrapper calls the
\* callback, then off (lines 378-381).
forEach(S, event, arg, i, len) ==
    IF i > len THEN S
    ELSE IF i > Len(S.eventHandlers[event]) THEN forEach(S, event, arg, i + 1, len)
    ELSE LET h == S.eventHandlers[event][i]
             S0 == logHandOver(logObserve(logInvoke(S, event, h), event, h, arg),
                               event, h, arg)
             S1 == Invoke(S0, h, arg)
             S2 == IF h.once THEN off(S1, event, h) ELSE S1
         IN  forEach(S2, event, arg, i + 1, len)

emit(S, event, arg) ==
    LET S1 == IF event = "newProducer"
              THEN [S EXCEPT !.announced = Append(@, arg)]
              ELSE S
    IN  forEach(logPublish(S1, event), event, arg, 1, Len(S1.eventHandlers[event]))

\* ------------------------------------------------------ running a task
RunOne(S, m) ==
    CASE m.kind = "startNext" -> startNext(S)
      [] m.kind = "failConsume" -> settleConsume(S, m.a, "null", TRUE)
      [] m.kind = "recvTransportReady" -> recvTransportReady(S, m.a, m.b)
      [] m.kind = "consumerCreated" -> consumerCreated(S, m.a, m.b)
      [] m.kind = "sendTransportReady" -> startProduce(S, m.a)
      [] m.kind = "producerCreated" -> producerCreated(S, m.a, m.b)
      [] m.kind = "failProduce" -> rejectProduce(S, m.a, m.b)
      [] OTHER -> S

RECURSIVE RunMicrotasks(_)
RunMicrotasks(S) ==
    IF S.micro = <<>> THEN S
    ELSE RunMicrotasks(RunOne([S EXCEPT !.micro = Tail(@)], Head(S.micro)))

RunTask(S) == Commit(RunMicrotasks(S))


\* ------------------------------------------------- capability negotiation
\* handleRtpCapabilities, lines 145-146: a new Device replaces this.device and
\* its load starts.
handleRtpCapabilities(S) ==
    LET g == S.hist.caps + 1
    IN  [S EXCEPT !.device = g,
                  !.devLoading = @ \cup {g},
                  !.hist.caps = g]

RECURSIVE emitAll(_, _)
\* The loop of lines 153-159.
emitAll(S, list) ==
    IF list = <<>> THEN S
    ELSE emitAll(emit(S, "newProducer", Head(list)), Tail(list))

\* flush without the reset of line 152.
flushPending_keep(S) ==
    IF Len(S.pendingExistingProducers) > 0
    THEN emitAll(S, S.pendingExistingProducers)
    ELSE S

\* Lines 150-160: the pending announcements are copied, the buffer is emptied
\* and each copy is emitted.
flushPending(S) ==
    IF Len(S.pendingExistingProducers) > 0
    THEN LET list == S.pendingExistingProducers
         IN  emitAll([S EXCEPT !.pendingExistingProducers = <<>>], list)
    ELSE S

\* handleRtpCapabilities resumes after the await of line 146.
deviceLoaded(S, g) ==
    flushPending([S EXCEPT !.devLoaded = @ \cup {g},
                           !.devLoading = @ \ {g},
                           !.hist.ready = @ + 1,
                           !.hist.joinedSince = FALSE,
                           !.hist.expected = <<>>])

\* The announcements the server sent, in sending order, kept when hist.trace
\* is on: src is "joined" for an entry of existingProducers, "live" for a
\* newProducer message.
logServer(S, src, list) ==
    IF ~S.hist.trace THEN S
    ELSE [S EXCEPT !.hist.server =
             @ \o [i \in 1..Len(list) |-> [src |-> src, item |-> list[i]]]]

\* case "joined", lines 42-49.
onJoined(S, list) ==
    LET S1 == emit(logServer(S, "joined", list), "joined", list)
        S2 == IF Len(list) > 0
              THEN [S1 EXCEPT !.pendingExistingProducers = list]
              ELSE S1
    IN  [S2 EXCEPT !.known = @ \cup { list[i][1] : i \in 1..Len(list) },
                   !.hist.joined = @ + 1,
                   !.hist.joinedSince = @ \/ Len(list) > 0,
                   !.hist.expected = @ \o list]

\* handleParticipantLeft without the delete of line 344.
handleParticipantLeft_keep(S, p) ==
    LET t == S.consumerTransports[p]
        S1 == IF t # 0
              THEN [closeTransport(S, t) EXCEPT !.hist.closedOnLeave = @ \cup {t}]
              ELSE S
    IN  emit(S1, "participantLeft", p)

\* handleParticipantLeft with the departure announced before the transport is
\* closed and removed.
handleParticipantLeft_notifyFirst(S, p) ==
    LET S0 == emit(S, "participantLeft", p)
        t == S0.consumerTransports[p]
    IN  IF t # 0
        THEN [closeTransport(S0, t) EXCEPT !.consumerTransports[p] = 0,
                                           !.hist.closedOnLeave = @ \cup {t}]
        ELSE S0

\* handleParticipantLeft, lines 340-347 (hist.closedOnLeave records the
\* transports closed here).
handleParticipantLeft(S, p) ==
    LET t == S.consumerTransports[p]
        S1 == IF t # 0
              THEN [closeTransport(S, t) EXCEPT !.consumerTransports[p] = 0,
                                                !.hist.closedOnLeave = @ \cup {t}]
              ELSE S
    IN  emit(S1, "participantLeft", p)

\* ------------------------------------------------------------- disconnect
\* One close() call made by disconnect, recorded in call order.
logClose(S, kind, id) ==
    [S EXCEPT !.hist.closeLog = Append(@, <<kind, id>>)]

\* producer.close() / consumer.close() on the object registered under id.
closeObject(S, kind, id) ==
    logClose(IF kind = "producer"
             THEN [S EXCEPT !.producerObjs =
                       { IF c.id = id THEN [c EXCEPT !.closed = TRUE] ELSE c : c \in @ }]
             ELSE [S EXCEPT !.consumerObjs =
                       { IF c.id = id THEN [c EXCEPT !.closed = TRUE] ELSE c : c \in @ }],
             kind, id)

RECURSIVE closeObjects(_, _, _)
\* for (const x of map.values()) x.close(), lines 350-352 and 355-357.
closeObjects(S, kind, ids) ==
    IF ids = {} THEN S
    ELSE LET id == CHOOSE x \in ids : \A y \in ids : x <= y
         IN  closeObjects(closeObject(S, kind, id), kind, ids \ {id})

RECURSIVE closeTransports(_, _)
\* for (const transport of this.consumerTransports.values()) transport.close(),
\* lines 362-364.
closeTransports(S, ts) ==
    IF ts = {} THEN S
    ELSE LET t == CHOOSE x \in ts : \A y \in ts : x <= y
         IN  closeTransports(logClose(closeTransport(S, t), "consumerTransport", t),
                             ts \ {t})

\* this.ws.close(), line 367: an open or connecting socket starts closing.
wsClose(S) ==
    logClose([S EXCEPT !.ws = IF @ \in {"CONNECTING", "OPEN"} THEN "CLOSING" ELSE @],
             "ws", 0)

\* disconnect with the transports closed before the Producers and Consumers.
disconnect_transportsFirst(S) ==
    LET S0 == [S EXCEPT !.hist.closeLog = <<>>, !.hist.disconnects = @ + 1]
        S1 == IF S0.producerTransport # 0
              THEN logClose(closeTransport(S0, S0.producerTransport),
                            "producerTransport", S0.producerTransport)
              ELSE S0
        S2 == closeTransports(S1, { S1.consumerTransports[p] : p \in Participants } \ {0})
        S3 == [S2 EXCEPT !.consumerTransports = [p \in Participants |-> 0]]
        S4 == closeObjects(S3, "producer", S3.producers)
        S5 == closeObjects([S4 EXCEPT !.producers = {}], "consumer", S4.consumers)
    IN  wsClose([S5 EXCEPT !.consumers = {}])

\* disconnect without the clear() of lines 353, 358 and 365.
disconnect_noclear(S) ==
    LET S0 == [S EXCEPT !.hist.closeLog = <<>>, !.hist.disconnects = @ + 1]
        S1 == closeObjects(S0, "producer", S0.producers)
        S2 == closeObjects(S1, "consumer", S1.consumers)
        S3 == IF S2.producerTransport # 0
              THEN logClose(closeTransport(S2, S2.producerTransport),
                            "producerTransport", S2.producerTransport)
              ELSE S2
    IN  wsClose(closeTransports(S3,
                    { S3.consumerTransports[p] : p \in Participants } \ {0}))

\* disconnect, lines 349-368.  this.producerTransport keeps its value.
disconnect(S) ==
    LET S0 == [S EXCEPT !.hist.closeLog = <<>>, !.hist.disconnects = @ + 1]
        S1 == closeObjects(S0, "producer", S0.producers)
        S2 == [S1 EXCEPT !.producers = {}]
        S3 == closeObjects(S2, "consumer", S2.consumers)
        S4 == [S3 EXCEPT !.consumers = {}]
        S5 == IF S4.producerTransport # 0
              THEN logClose(closeTransport(S4, S4.producerTransport),
                            "producerTransport", S4.producerTransport)
              ELSE S4
        S6 == closeTransports(S5, { S5.consumerTransports[p] : p \in Participants } \ {0})
        S7 == [S6 EXCEPT !.consumerTransports = [p \in Participants |-> 0]]
    IN  wsClose(S7)

\* The reply the server gives to a request.
ReplyType(type) ==
    CASE type = "createProducerTransport" -> "producerTransportCreated"
      [] type = "connectProducerTransport" -> "producerTransportConnected"
      [] type = "produce" -> "produced"
      [] type = "createConsumerTransport" -> "consumerTransportCreated"
      [] type = "connectConsumerTransport" -> "consumerTransportConnected"
      [] type = "consume" -> "consumed"

\* ---------------------------------------------------------------- actions
\* The history record of a new session.  trace switches on the log of the bus
\* (fired, publish), of what the application's handlers observe (seen) and of
\* the announcements the server sent (server); dropped holds the messages send
\* did not transmit; lost the requests whose confirmation never arrives;
\* disconnects counts the disconnect() calls and closeLog lists the close()
\* calls of the latest one.
History(trace) ==
    [caps |-> 0, joined |-> 0, left |-> 0, live |-> 0, ready |-> 0,
     joinedSince |-> FALSE, expected |-> <<>>, closedOnLeave |-> {},
     dropped |-> {}, disconnects |-> 0, closeLog |-> <<>>, apps |-> 0,
     lost |-> {}, seen |-> <<>>, server |-> <<>>, handed |-> {},
     trace |-> trace, fired |-> <<>>,
     publish |-> [event |-> "", registered |-> <<>>, invoked |-> <<>>]]

Start(trace) ==
    /\ ws = "CONNECTING"
    /\ device = 0
    /\ devLoading = {}
    /\ devLoaded = {}
    /\ producerTransport = 0
    /\ consumerTransports = [p \in Participants |-> 0]
    /\ producers = {}
    /\ consumers = {}
    /\ eventHandlers = [e \in EventTypes |-> <<>>]
    /\ pendingExistingProducers = <<>>
    /\ consumeQueue = <<>>
    /\ produceCalls = <<>>
    /\ transports = <<>>
    /\ consumerObjs = {}
    /\ producerObjs = {}
    /\ wire = <<>>
    /\ sent = <<>>
    /\ announced = <<>>
    /\ resolved = <<>>
    /\ known = {}
    /\ connectCalls = <<>>
    /\ onopen = 0
    /\ onerror = 0
    /\ hist = History(trace)

Init == Start(FALSE)

\* The same initial state, with the log of the bus switched on.
InitBus == Start(TRUE)

\* The socket opens.
WsOpen ==
    /\ ws = "CONNECTING"
    /\ RunTask(wsOnOpen([Cur EXCEPT !.ws = "OPEN"]))

\* onmessage, case "joined".
Joined ==
    /\ ws = "OPEN"
    /\ hist.joined < MaxJoined
    /\ \E list \in ExistingLists : RunTask(onJoined(Cur, list))

\* onmessage, case "rtpCapabilities", up to the await of line 146.
CapabilitiesMessage(max) ==
    /\ ws = "OPEN"
    /\ hist.caps < max
    /\ RunTask(handleRtpCapabilities(Cur))

RtpCapabilities == CapabilitiesMessage(MaxCaps)

RtpCapabilitiesWhileConsuming == CapabilitiesMessage(MaxConsumeCaps)

\* device.load() resolves.
LoadDone ==
    \E g \in devLoading : RunTask(deviceLoaded(Cur, g))

\* device.load() rejects: handleRtpCapabilities ends there.
LoadFail ==
    \E g \in devLoading : RunTask([Cur EXCEPT !.devLoading = @ \ {g}])

\* onmessage, case "participantJoined", lines 79-81.
ParticipantJoined ==
    /\ ws = "OPEN"
    /\ \E p \in Participants \ known :
         RunTask([emit(Cur, "participantJoined", p) EXCEPT !.known = @ \cup {p}])

\* onmessage, case "newProducer", lines 83-89.
NewProducer ==
    /\ ws = "OPEN"
    /\ hist.live < MaxLive
    /\ \E a \in Announcements :
         RunTask([emit(logServer(Cur, "live", <<a>>), "newProducer", a)
                     EXCEPT !.known = @ \cup {a[1]}, !.hist.live = @ + 1])

\* onmessage, case "participantLeft", lines 91-93.
ParticipantLeft ==
    /\ ws = "OPEN"
    /\ hist.left < MaxLeft
    /\ \E p \in known :
         RunTask([handleParticipantLeft(Cur, p) EXCEPT !.known = @ \ {p},
                                                      !.hist.left = @ + 1])

\* The application calls consumeTrack for a participant it was told about.
ConsumeCall(max) ==
    /\ Len(consumeQueue) < max
    /\ \E p \in known : RunTask(consumeTrack(Cur, p))

ConsumeTrack == ConsumeCall(MaxConsumeCalls)

\* The server answers the oldest request with its confirmation; onmessage emits it.
ServerReply ==
    /\ ws = "OPEN"
    /\ wire # <<>>
    /\ LET r == Head(wire)
       IN  RunTask(emit([Cur EXCEPT !.wire = Tail(@)], ReplyType(r.type), r.owner))

\* The server answers the oldest request with an error message (case "error",
\* lines 95-97: logged only), or its reply is lost.
ServerError ==
    /\ ws = "OPEN"
    /\ wire # <<>>
    /\ RunTask([Cur EXCEPT !.wire = Tail(@)])

\* engine: the transport's first produce / consume fires its "connect" event.
EngineConnect ==
    \E t \in 1..Len(transports) :
        /\ ~transports[t].closed
        /\ transports[t].conn = "new"
        /\ transports[t].tasks # <<>>
        /\ RunTask(connectListener(Cur, t))

\* engine: transport.consume() resolves with a new Consumer.
EngineConsumeDone ==
    \E t \in 1..Len(transports) :
        /\ transports[t].dir = "recv"
        /\ ~transports[t].closed
        /\ transports[t].conn = "ready"
        /\ transports[t].tasks # <<>>
        /\ LET task == Head(transports[t].tasks)
               S1 == [Cur EXCEPT !.transports[t].tasks = Tail(@),
                                 !.consumerObjs = @ \cup
                                     {[id |-> task.id, tr |-> t, closed |-> FALSE]}]
           IN  RunTask(defer(S1, "consumerCreated", task.call, task.id))

\* engine: transport.consume() rejects.
EngineConsumeFail ==
    \E t \in 1..Len(transports) :
        /\ transports[t].dir = "recv"
        /\ ~transports[t].closed
        /\ transports[t].conn = "ready"
        /\ transports[t].tasks # <<>>
        /\ LET task == Head(transports[t].tasks)
           IN  RunTask(defer([Cur EXCEPT !.transports[t].tasks = Tail(@)],
                             "failConsume", task.call, "null"))

\* The application calls produceTrack.
ProduceCall(max) ==
    /\ Len(produceCalls) < max
    /\ RunTask(produceTrack(Cur))

ProduceTrack == ProduceCall(MaxProduceCalls)

\* engine: the transport fires its "produce" event for the oldest produce task.
EngineProduceEvent ==
    \E t \in 1..Len(transports) :
        /\ transports[t].dir = "send"
        /\ ~transports[t].closed
        /\ transports[t].conn = "ready"
        /\ transports[t].tasks # <<>>
        /\ ~Head(transports[t].tasks).fired
        /\ RunTask(produceListener(Cur, t))

NextConsume ==
    \/ WsOpen
    \/ RtpCapabilitiesWhileConsuming
    \/ LoadDone
    \/ ParticipantJoined
    \/ ParticipantLeft
    \/ ConsumeTrack
    \/ ServerReply
    \/ ServerError
    \/ EngineConnect
    \/ EngineConsumeDone
    \/ EngineConsumeFail

SpecConsume == Init /\ [][NextConsume]_vars

NextProduce ==
    \/ WsOpen
    \/ RtpCapabilities
    \/ LoadDone
    \/ LoadFail
    \/ ProduceTrack
    \/ ServerReply
    \/ ServerError
    \/ EngineConnect
    \/ EngineProduceEvent

SpecProduce == Init /\ [][NextProduce]_vars

NextCapability ==
    \/ WsOpen
    \/ Joined
    \/ RtpCapabilities
    \/ LoadDone
    \/ LoadFail
    \/ NewProducer

SpecCapability == Init /\ [][NextCapability]_vars

\* The application calls disconnect.
Disconnect ==
    /\ hist.disconnects < MaxDisconnects
    /\ RunTask(disconnect(Cur))

\* The closing handshake ends; onclose (lines 105-107) logs only.
WsClosed ==
    /\ ws = "CLOSING"
    /\ RunTask([Cur EXCEPT !.ws = "CLOSED"])

\* The connection fails: the socket fires error and is closed.
WsError ==
    /\ ws \in {"CONNECTING", "OPEN"}
    /\ RunTask(wsOnError([Cur EXCEPT !.ws = "CLOSED"]))

\* The application calls connect.
Connect ==
    /\ Len(connectCalls) < MaxConnects
    /\ RunTask(connect(Cur))

\* A session being established, torn down or failing to connect.
NextConnect ==
    \/ WsOpen
    \/ WsError
    \/ WsClosed
    \/ Connect
    \/ Disconnect
    \/ RtpCapabilities
    \/ LoadDone

SpecConnect == Init /\ [][NextConnect]_vars

ConsumeTrackBeforeLeave == ConsumeCall(MaxLifeConsume)

\* The application publishes its tracks as the page does (lines 788-789): each
\* produceTrack call is awaited before the next one is made.
ProduceTrackAwaited ==
    /\ \A j \in 1..Len(produceCalls) : produceCalls[j].res # "pending"
    /\ ProduceCall(MaxLifeProduce)

\* The server's answer to the session's getRtpCapabilities request.
FirstCapabilities ==
    /\ device = 0
    /\ CapabilitiesMessage(MaxCaps)

\* A session that publishes, subscribes and is then shut down.
NextLifecycle ==
    \/ WsOpen
    \/ WsClosed
    \/ FirstCapabilities
    \/ LoadDone
    \/ ParticipantJoined
    \/ ConsumeTrackBeforeLeave
    \/ ProduceTrackAwaited
    \/ ServerReply
    \/ EngineConnect
    \/ EngineConsumeDone
    \/ EngineProduceEvent
    \/ Disconnect

SpecLifecycle == Init /\ [][NextLifecycle]_vars

\* The application publishes a track once its earlier produceTrack calls have
\* settled, also after it has called disconnect.
ProduceTrackAgain ==
    /\ \A j \in 1..Len(produceCalls) : produceCalls[j].res # "pending"
    /\ ProduceCall(MaxProduceCalls)

\* A session that publishes, is shut down and publishes again.
NextRepublish ==
    \/ WsOpen
    \/ WsClosed
    \/ FirstCapabilities
    \/ LoadDone
    \/ ProduceTrackAgain
    \/ ServerReply
    \/ EngineConnect
    \/ EngineProduceEvent
    \/ Disconnect

SpecRepublish == Init /\ [][NextRepublish]_vars

\* The consume call a request on the wire belongs to: its owner, or for a connect
\* request the call whose consume() made transport r.owner connect (0 if none).
CallOf(r) ==
    IF r.type \in {"createConsumerTransport", "consume"} THEN r.owner
    ELSE IF r.type = "connectConsumerTransport" /\ transports[r.owner].tasks # <<>>
         THEN Head(transports[r.owner].tasks).call
         ELSE 0

\* As ReplyLost, with the error routed back to the requesting call.
ReplyLost_routed ==
    /\ ws = "OPEN"
    /\ wire # <<>>
    /\ LET r == Head(wire)
           S1 == [Cur EXCEPT !.wire = Tail(@),
                             !.hist.lost = @ \cup {[type |-> r.type, call |-> CallOf(r)]}]
       IN  RunTask(IF CallOf(r) = 0 THEN S1 ELSE settleConsume(S1, CallOf(r), "null", TRUE))

\* The confirmation of the oldest request never arrives: the reply is lost, or
\* the server answers with an error message (case "error", lines 95-97: logged
\* only).  hist.lost records the request and the consume call it belongs to.
ReplyLost ==
    /\ ws = "OPEN"
    /\ wire # <<>>
    /\ LET r == Head(wire)
       IN  RunTask([Cur EXCEPT !.wire = Tail(@),
                               !.hist.lost = @ \cup {[type |-> r.type, call |-> CallOf(r)]}])

\* Consume calls in a session whose replies may be lost and whose socket may fail.
NextStall ==
    \/ WsOpen
    \/ WsError
    \/ FirstCapabilities
    \/ LoadDone
    \/ ParticipantJoined
    \/ ParticipantLeft
    \/ ConsumeTrackBeforeLeave
    \/ ServerReply
    \/ ReplyLost
    \/ EngineConnect
    \/ EngineConsumeDone

SpecStall == Init /\ [][NextStall]_vars

RECURSIVE onAll(_, _)
onAll(S, events) ==
    IF events = <<>> THEN S
    ELSE onAll(on(S, Head(events), [once |-> FALSE, role |-> "app", owner |-> 0]),
               Tail(events))

\* The page registers its three handlers right after constructing the client
\* (lines 725-770), before it calls connect.
Subscribe ==
    /\ ws = "CONNECTING"
    /\ eventHandlers["newProducer"] = <<>>
    /\ RunTask(onAll(Cur, <<"participantJoined", "participantLeft", "newProducer">>))

\* A subscribed session: participants come and go while their tracks are
\* consumed, and the application's handlers are told.
NextObserve ==
    \/ Subscribe
    \/ WsOpen
    \/ FirstCapabilities
    \/ LoadDone
    \/ ParticipantJoined
    \/ ParticipantLeft
    \/ ConsumeTrackBeforeLeave
    \/ ServerReply
    \/ EngineConnect
    \/ EngineConsumeDone

SpecObserve == InitBus /\ [][NextObserve]_vars

\* What a LoadDone step does to the engine's Device objects; a step of the
\* session is a LoadStep exactly when it is a LoadDone step.
LoadStep ==
    \E g \in devLoading :
        /\ devLoading' = devLoading \ {g}
        /\ devLoaded' = devLoaded \cup {g}

\* What a ServerReply step does to the requests awaiting their answer: the
\* oldest one is taken off, and the handlers send at most one new request.  A
\* step of the session is a ReplyStep exactly when it is a ServerReply step.
ReplyStep ==
    /\ ws = "OPEN"
    /\ wire # <<>>
    /\ \/ wire' = Tail(wire)
       \/ \E type \in Requests :
          \E owner \in 1..(Len(consumeQueue) + Len(transports) + 1) :
              wire' = Append(Tail(wire), [type |-> type, owner |-> owner])

\* What an EngineConnect step does to the engine's transports.
ConnectStep ==
    \E t \in 1..Len(transports) :
        /\ ~transports[t].closed
        /\ transports[t].conn = "new"
        /\ transports[t].tasks # <<>>
        /\ transports' = [transports EXCEPT ![t].conn = "connecting"]

\* What an EngineConsumeDone step does to the engine's transports.
ConsumeDoneStep ==
    \E t \in 1..Len(transports) :
        /\ transports[t].dir = "recv"
        /\ ~transports[t].closed
        /\ transports[t].conn = "ready"
        /\ transports[t].tasks # <<>>
        /\ transports' = [transports EXCEPT ![t].tasks = Tail(@)]

\* Consume calls with participants coming and going, in a session whose socket
\* stays open, whose server answers every request and whose engine completes
\* every load, connect and consume.
NextConsumeFair ==
    \/ WsOpen
    \/ FirstCapabilities
    \/ LoadDone
    \/ ParticipantJoined
    \/ ParticipantLeft
    \/ ConsumeTrackBeforeLeave
    \/ ServerReply
    \/ EngineConnect
    \/ EngineConsumeDone

SpecConsumeFair ==
    /\ Init
    /\ [][NextConsumeFair]_vars
    /\ WF_wire(ReplyStep)
    /\ WF_transports(ConnectStep)
    /\ WF_transports(ConsumeDoneStep)

\* Consume calls in a session whose server sends rtpCapabilities more than once
\* and answers every request.
NextRenegotiate ==
    \/ WsOpen
    \/ RtpCapabilities
    \/ LoadDone
    \/ ParticipantJoined
    \/ ConsumeTrack
    \/ ServerReply
    \/ EngineConnect
    \/ EngineConsumeDone

SpecRenegotiate == InitBus /\ [][NextRenegotiate]_vars

\* The socket of a client whose page has registered its handlers opens: the
\* page constructs the client and registers in one task (lines 720-770).
WsOpenSubscribed ==
    /\ eventHandlers["newProducer"] # <<>>
    /\ WsOpen

\* A subscribed session receiving joined, rtpCapabilities and newProducer
\* messages in any order.
NextAnnounce ==
    \/ Subscribe
    \/ WsOpenSubscribed
    \/ Joined
    \/ RtpCapabilities
    \/ LoadDone
    \/ NewProducer

SpecAnnounce == InitBus /\ [][NextAnnounce]_vars

\* The joined message of a session whose server answers its one join request.
JoinedOnce ==
    /\ hist.joined = 0
    /\ Joined

\* A subscribed session with one joined and one rtpCapabilities message, in
\* either order, where device.load() resolves.
NextJoin ==
    \/ Subscribe
    \/ WsOpenSubscribed
    \/ JoinedOnce
    \/ FirstCapabilities
    \/ LoadDone
    \/ NewProducer

SpecJoinFair ==
    InitBus /\ [][NextJoin]_vars /\ WF_<<devLoading, devLoaded>>(LoadStep)

\* The event types the application subscribes to here: those on which the
\* produce flow keeps its one-shot listeners.
AppEvents == {"producerTransportCreated", "produced"}

\* The application calls on(event, callback) with a callback of its own.
AppOn ==
    /\ hist.apps < MaxAppHandlers
    /\ \E e \in AppEvents :
         RunTask([on(Cur, e, [once |-> FALSE, role |-> "app", owner |-> hist.apps + 1])
                     EXCEPT !.hist.apps = @ + 1])

\* The produce flow with application handlers next to its one-shot listeners.
NextBus ==
    \/ WsOpen
    \/ FirstCapabilities
    \/ LoadDone
    \/ AppOn
    \/ ProduceTrack
    \/ ServerReply
    \/ EngineConnect
    \/ EngineProduceEvent

SpecBus == InitBus /\ [][NextBus]_vars


\* ------------------------------------------------------------ properties
Outstanding(k) ==
    consumeQueue[k].st \in {"awaitCT", "awaitConsumed", "consuming", "stalled"}

ConsumeRequests == {"createConsumerTransport", "consume"}

\* C1: at most one consume negotiation is outstanding at any instant; a call
\* has sent a createConsumerTransport or consume request only if the call before
\* it has resolved; the calls resolve in the order they were issued.
C1_ConsumeSerialized ==
    /\ Cardinality({ k \in 1..Len(consumeQueue) : Outstanding(k) }) <= 1
    /\ \A i \in 1..Len(sent) :
         (sent[i].type \in ConsumeRequests /\ sent[i].owner > 1)
             => consumeQueue[sent[i].owner - 1].res # "pending"
    /\ \A k \in 2..Len(consumeQueue) :
         consumeQueue[k].st # "queued" => consumeQueue[k - 1].res # "pending"
    /\ \A i, j \in 1..Len(resolved) : i < j => resolved[i] < resolved[j]

\* Three calls for a mix of participants: the first resolved with a track, the
\* second negotiating with a request sent, the third waiting in the queue.
C1_Witness ==
    /\ Len(consumeQueue) = 3
    /\ consumeQueue[1].res = "track"
    /\ consumeQueue[1].p # consumeQueue[2].p
    /\ consumeQueue[2].st = "awaitConsumed"
    /\ \E i \in 1..Len(sent) : sent[i].type = "consume" /\ sent[i].owner = 2
    /\ consumeQueue[3].st = "queued"

\* C2: when a consumeTrack call with a call queued behind it fails, it
\* resolves to null and the next call starts its own negotiation.
C2_FailureDoesNotAbortQueue ==
    \A k \in 1..(Len(consumeQueue) - 1) :
        consumeQueue[k].failed =>
            /\ consumeQueue[k].res = "null"
            /\ consumeQueue[k + 1].st # "queued"

\* C3: a failure at any step of a consume call makes the call resolve to null;
\* it does not stay pending.
C3_FailureResolvesNull ==
    \A k \in 1..Len(consumeQueue) :
        consumeQueue[k].failed => consumeQueue[k].res = "null"

OpenRecvTransports(p) ==
    { t \in 1..Len(transports) :
        transports[t].dir = "recv" /\ transports[t].key = p /\ ~transports[t].closed }

\* C4: at most one open Consumer Transport exists per participant, and no
\* createConsumerTransport request is in flight for a participant that has an
\* entry in consumerTransports.
C4_OneTransportPerParticipant ==
    /\ \A p \in Participants : Cardinality(OpenRecvTransports(p)) <= 1
    /\ \A i \in 1..Len(wire) :
         wire[i].type = "createConsumerTransport"
             => consumerTransports[consumeQueue[wire[i].owner].p] = 0

\* Two calls for the same participant both produced a track on the same
\* transport, and only the first sent createConsumerTransport.
C4_Witness ==
    \E k1, k2 \in 1..Len(consumeQueue) :
        /\ k1 < k2
        /\ consumeQueue[k1].p = consumeQueue[k2].p
        /\ consumeQueue[k1].res = "track"
        /\ consumeQueue[k2].res = "track"
        /\ consumeQueue[k1].tr = consumeQueue[k2].tr
        /\ \E i \in 1..Len(sent) :
             sent[i].type = "createConsumerTransport" /\ sent[i].owner = k1
        /\ ~\E i \in 1..Len(sent) :
             sent[i].type = "createConsumerTransport" /\ sent[i].owner = k2

\* C5: the keys of consumerTransports are participants that were announced and
\* have not left.
C5_TransportsOfKnownParticipants ==
    \A p \in Participants : consumerTransports[p] # 0 => p \in known

\* C10: once participantLeft for p is processed, p's transport and the Consumers
\* created on it are closed, the transport is no longer p's entry, and none of
\* those Consumers is in the consumers map.
C10_LeftReleasesConsumers ==
    \A t \in hist.closedOnLeave :
        /\ transports[t].closed
        /\ consumerTransports[transports[t].key] # t
        /\ \A c \in consumerObjs : c.tr = t => (c.closed /\ c.id \notin consumers)


\* C6: every produce message and every consume message is sent while the
\* capability state is Ready.
C6_MediaRequestsOnlyWhenReady ==
    \A i \in 1..Len(sent) :
        sent[i].type \in {"produce", "consume"} => sent[i].cap = "Ready"

ListenersOf(roles, owner) ==
    { e \in EventTypes :
        \E i \in 1..Len(eventHandlers[e]) :
            eventHandlers[e][i].role \in roles /\ eventHandlers[e][i].owner = owner }

\* C7: a produceTrack or consumeTrack call whose capability check ran while the
\* state was not Ready failed with the engine-not-initialized error, sent no
\* message, holds no listener and created no transport.
C7_NotReadyFailsFast ==
    /\ \A k \in 1..Len(consumeQueue) :
         consumeQueue[k].chk \in {"NotReady", "Loading"} =>
            /\ consumeQueue[k].res = "null"
            /\ consumeQueue[k].tr = 0
            /\ ListenersOf({"createConsumerTransport", "consumed"}, k) = {}
            /\ ~\E i \in 1..Len(sent) :
                  sent[i].type \in ConsumeRequests /\ sent[i].owner = k
    /\ \A j \in 1..Len(produceCalls) :
         produceCalls[j].chk \in {"NotReady", "Loading"} =>
            /\ produceCalls[j].res = "rejected"
            /\ produceCalls[j].err = "Device not initialized"
            /\ ListenersOf({"createProducerTransport", "produceCallback"}, j) = {}
            /\ ~\E i \in 1..Len(sent) :
                  sent[i].type \in {"createProducerTransport", "produce"}
                      /\ sent[i].owner = j


\* C8: the step in which a Device finishes loading emits exactly the buffered
\* announcements, in buffer order, and leaves the buffer empty; after an
\* earlier such step and no joined announcement since, it emits nothing.
C8_FlushOnReady ==
    [][ hist'.ready = hist.ready + 1 =>
          /\ announced' = announced \o pendingExistingProducers
          /\ pendingExistingProducers' = <<>>
          /\ (hist.ready >= 1 /\ ~hist.joinedSince) => announced' = announced
      ]_vars

\* Two announcements were buffered and flushed in order by the first load, and
\* a second load finished without emitting anything.
C8_Witness ==
    /\ hist.ready = 2
    /\ hist.joined = 1
    /\ hist.live = 0
    /\ announced = << <<"p2", "b">>, <<"p1", "a">> >>
    /\ pendingExistingProducers = <<>>

\* C9: while the capability state is not Ready, the buffer holds the existing
\* producers of every joined message received since the last flush, in arrival
\* order.
C9_JoinedAppends ==
    CapabilityState(Cur) # "Ready" => pendingExistingProducers = hist.expected


\* --------------------------------------------------------------- shutdown
Count(log, e) == Cardinality({ i \in 1..Len(log) : log[i] = e })

CloseRank(kind) ==
    CASE kind = "producer" -> 1
      [] kind = "consumer" -> 2
      [] kind = "producerTransport" -> 3
      [] kind = "consumerTransport" -> 4
      [] kind = "ws" -> 5

RegisteredTransports == { consumerTransports[p] : p \in Participants } \ {0}

\* The close() calls disconnect has to make in a state, as (kind, id) pairs.
CloseTargets ==
    { <<"producer", id>> : id \in producers }
        \cup { <<"consumer", id>> : id \in consumers }
        \cup (IF producerTransport # 0 THEN { <<"producerTransport", producerTransport>> }
              ELSE {})
        \cup { <<"consumerTransport", t>> : t \in RegisteredTransports }
        \cup { <<"ws", 0>> }

\* C11: a disconnect() call calls close() exactly once on every registered
\* Producer and Consumer, then on the Producer Transport, then on every
\* Consumer Transport, then on the socket, in that order, and on nothing else;
\* it leaves them closed and the producers, consumers and consumerTransports
\* maps empty.
C11_DisconnectOrder ==
    [][ hist'.disconnects = hist.disconnects + 1 =>
          LET log == hist'.closeLog
          IN  /\ \A e \in CloseTargets : Count(log, e) = 1
              /\ \A i \in 1..Len(log) : log[i] \in CloseTargets
              /\ \A i, j \in 1..Len(log) :
                     i < j => CloseRank(log[i][1]) <= CloseRank(log[j][1])
              /\ \A c \in producerObjs' : c.id \in producers => c.closed
              /\ \A c \in consumerObjs' : c.id \in consumers => c.closed
              /\ producerTransport # 0 => transports'[producerTransport].closed
              /\ \A t \in RegisteredTransports : transports'[t].closed
              /\ ws' # "OPEN"
              /\ producers' = {}
              /\ consumers' = {}
              /\ consumerTransports' = [p \in Participants |-> 0]
      ]_vars

\* One disconnect() call closed a Producer, two Consumers, the Producer
\* Transport, two Consumer Transports and the socket.
C11_Witness ==
    /\ hist.disconnects = 1
    /\ Len(hist.closeLog) = 7
    /\ Cardinality({ i \in 1..7 : hist.closeLog[i][1] = "consumerTransport" }) = 2
    /\ Cardinality({ i \in 1..7 : hist.closeLog[i][1] = "consumer" }) = 2
    /\ hist.closeLog[1][1] = "producer"
    /\ producers = {}
    /\ consumers = {}

\* C12: a disconnect() call made after an earlier one calls close() on no
\* Producer, Consumer or transport, and leaves the session as it found it.
C12_SecondDisconnectIdle ==
    [][ (hist.disconnects >= 1 /\ hist'.disconnects = hist.disconnects + 1) =>
          /\ \A i \in 1..Len(hist'.closeLog) : hist'.closeLog[i][1] = "ws"
          /\ UNCHANGED << ws, device, devLoading, devLoaded, producerTransport,
                          consumerTransports, producers, consumers, eventHandlers,
                          pendingExistingProducers, consumeQueue, produceCalls,
                          transports, consumerObjs, producerObjs, wire, sent >>
      ]_vars

C14_SendOnlyWhenOpen ==
    /\ \A i \in 1..Len(sent) : sent[i].ws = "OPEN"
    /\ \A d \in hist.dropped :
         /\ ~\E i \in 1..Len(sent) : sent[i].type = d.type /\ sent[i].owner = d.owner
         /\ ~\E i \in 1..Len(wire) : wire[i] = d

\* Requests were transmitted while the socket was open; after disconnect a
\* consumeTrack call's createConsumerTransport and a produceTrack call's
\* createProducerTransport were dropped.
C14_Witness ==
    /\ ws = "CLOSED"
    /\ Len(sent) >= 2
    /\ \E d \in hist.dropped : d.type = "createConsumerTransport"
    /\ \E d \in hist.dropped : d.type = "createProducerTransport"


\* ------------------------------------------------------------- capability
CapabilityRank(d, loaded) ==
    IF d = 0 THEN 0 ELSE IF d \in loaded THEN 2 ELSE 1

\* C15: the capability state never moves backwards (NotReady, Loading, Ready),
\* and the Device held in this.device, once created, is never replaced.
C15_CapabilityForwardOnly ==
    [][ /\ CapabilityRank(device', devLoaded') >= CapabilityRank(device, devLoaded)
        /\ device # 0 => device' = device
      ]_vars


\* ---------------------------------------------------------------- produce
SendTransports == { t \in 1..Len(transports) : transports[t].dir = "send" }

\* C16: over any sequence of produceTrack calls at most one
\* createProducerTransport request is sent and at most one Producer Transport
\* is ever created.
C16_OneProducerTransport ==
    /\ Cardinality({ i \in 1..Len(sent) : sent[i].type = "createProducerTransport" }) <= 1
    /\ Cardinality(SendTransports) <= 1

\* Transport creation failed for produceTrack call j: the engine threw in
\* setupProducerTransport, or no transport was there after the creation step.
CreationFailed(j) ==
    \/ produceCalls[j].st = "stalled"
    \/ produceCalls[j].err = "Producer transport not created"

\* C17: a produceTrack call whose transport creation failed is rejected with
\* the transport-not-created error; it does not stay pending.
C17_CreationFailureRejects ==
    \A j \in 1..Len(produceCalls) :
        CreationFailed(j) =>
            /\ produceCalls[j].res = "rejected"
            /\ produceCalls[j].err = "Producer transport not created"


\* ---------------------------------------------------------------- connect
Handshake ==
    SelectSeq(sent, LAMBDA m : m.type \in {"join", "getRtpCapabilities"})

ResolvedConnects ==
    { j \in 1..Len(connectCalls) : connectCalls[j].res = "resolved" }

C19_PublishInvokesAll ==
    hist.publish.invoked = hist.publish.registered

NewlyFired(e, h, old, new) ==
    \E k \in (Len(old) + 1)..Len(new) : new[k] = [event |-> e, h |-> h]

\* C20: no once-wrapper is called by two publishes; once called it is no
\* longer in the handler list; and a handler leaves a list only as a
\* once-wrapper called in that step: every other handler stays registered.
C20_OnceFiresOnce ==
    [][ /\ \A i, j \in 1..Len(hist'.fired) : i # j => hist'.fired[i] # hist'.fired[j]
        /\ \A i \in 1..Len(hist'.fired) :
             LET f == hist'.fired[i]
             IN  \A k \in 1..Len(eventHandlers'[f.event]) :
                     eventHandlers'[f.event][k] # f.h
        /\ \A e \in EventTypes : \A i \in 1..Len(eventHandlers[e]) :
             LET h == eventHandlers[e][i]
             IN  \/ h.once /\ NewlyFired(e, h, hist.fired, hist'.fired)
                 \/ \E k \in 1..Len(eventHandlers'[e]) : eventHandlers'[e][k] = h
      ]_vars

\* A publish found an application handler, a one-shot listener and a second
\* application handler registered, called the one-shot listener, and left
\* exactly the two application handlers registered.
C20_Witness ==
    LET r == hist.publish.registered
    IN  /\ Len(r) = 3
        /\ ~r[1].once
        /\ r[2].once
        /\ ~r[3].once
        /\ \E i \in 1..Len(hist.fired) : hist.fired[i].h = r[2]
        /\ eventHandlers[hist.publish.event] = << r[1], r[3] >>


\* ----------------------------------------------------------------- stalls
\* The requests of consume call k, of the given types, whose confirmation never
\* arrives: lost or answered by an error, or dropped by send.
Unconfirmed(k, types) ==
    { l \in hist.lost : l.call = k /\ l.type \in types }
        \cup { [type |-> d.type, call |-> d.owner] :
                 d \in { x \in hist.dropped : x.type \in (types \cap ConsumeRequests)
                                                  /\ x.owner = k } }

Stalled(k) ==
    /\ consumeQueue[k].res = "pending"
    /\ \A j \in (k + 1)..Len(consumeQueue) : consumeQueue[j].st = "queued"
    /\ \A i \in 1..Len(sent) :
         sent[i].type \in ConsumeRequests => sent[i].owner <= k

NewMessages(old, new) == { new[i] : i \in (Len(old) + 1)..Len(new) }

\* C22: a produce message of call j is sent only on a Producer Transport that
\* exists and whose connect handshake is confirmed, with j's produce() the
\* transport's current task; a Producer enters the producers map only in the
\* step that handles the produced reply to its own call's produce request,
\* under the id of that reply.
C22_ProduceAfterHandshake ==
    [][ /\ \A m \in NewMessages(sent, sent') :
             m.type = "produce" =>
                 \E t \in SendTransports :
                     /\ transports[t].conn = "ready"
                     /\ transports[t].tasks # <<>>
                     /\ Head(transports[t].tasks).call = m.owner
        /\ \A id \in producers' \ producers :
             /\ wire # <<>>
             /\ wire' = Tail(wire)
             /\ Head(wire) = [type |-> "produce", owner |-> id]
             /\ \A c \in producerObjs' \ producerObjs : c.id = id /\ c.call = id
      ]_vars


\* -------------------------------------------------------------- observers
\* C23: whenever a participantLeft handler of the application runs for p,
\* consumerTransports has no entry for p and no Consumer Transport of p is open.
C23_ClosedBeforeNotified ==
    \A i \in 1..Len(hist.seen) :
        hist.seen[i].event = "participantLeft" =>
            /\ hist.seen[i].entry = 0
            /\ hist.seen[i].open = {}

\* The application was told that a participant left whose Consumer Transport
\* had been closed by that message.
C23_Witness ==
    \E i \in 1..Len(hist.seen) :
        /\ hist.seen[i].event = "participantLeft"
        /\ \E t \in hist.closedOnLeave : transports[t].key = hist.seen[i].arg


\* ------------------------------------------------------- consume after leave
TransportOf(queue, k) == IF k <= Len(queue) THEN queue[k].tr ELSE 0

Waiting(queue, k) == k > Len(queue) \/ queue[k].st = "queued"

\* C24: a transport closed by participantLeft is never p's entry in
\* consumerTransports again and is never picked by a consume call afterwards;
\* a call that starts while p has no entry sends its own
\* createConsumerTransport request.
C24_FreshTransportAfterLeave ==
    [][ /\ \A p \in Participants : consumerTransports'[p] \notin hist'.closedOnLeave
        /\ \A k \in 1..Len(consumeQueue') :
             /\ (TransportOf(consumeQueue, k) = 0 /\ consumeQueue'[k].tr # 0)
                    => consumeQueue'[k].tr \notin hist'.closedOnLeave
             /\ (/\ Waiting(consumeQueue, k)
                 /\ consumeQueue'[k].st \notin {"queued", "done"}
                 /\ consumeQueue'[k].tr = 0)
                    => \E i \in 1..Len(sent') :
                           /\ sent'[i].type = "createConsumerTransport"
                           /\ sent'[i].owner = k
      ]_vars

\* A participant's transport was closed on leave; a later call for the same
\* participant sent createConsumerTransport and got its track on a new transport.
C24_Witness ==
    \E k \in 1..Len(consumeQueue) : \E t \in hist.closedOnLeave :
        /\ transports[t].key = consumeQueue[k].p
        /\ consumeQueue[k].tr > t
        /\ consumeQueue[k].res = "track"
        /\ consumerTransports[consumeQueue[k].p] = consumeQueue[k].tr
        /\ \E i \in 1..Len(sent) :
             sent[i].type = "createConsumerTransport" /\ sent[i].owner = k


\* ------------------------------------------------------- announcements
\* The number of entries of log that satisfy Test.
CountIf(log, Test(_)) == Cardinality({ i \in 1..Len(log) : Test(log[i]) })

\* How often a was listed in the existingProducers of joined messages.
ListedCount(a) ==
    LET Test(e) == e.src = "joined" /\ e.item = a
    IN  CountIf(hist.server, Test)

\* How often the server sent a as a live newProducer message.
LiveCount(a) ==
    LET Test(e) == e.src = "live" /\ e.item = a
    IN  CountIf(hist.server, Test)

\* How often the application's newProducer handler was called with a.
ObservedCount(a) ==
    LET Test(e) == e.event = "newProducer" /\ e.arg = a
    IN  CountIf(hist.seen, Test)

\* Every announcement the server has sent so far has reached the observers.
AllObserved ==
    \A a \in Announcements : ObservedCount(a) >= ListedCount(a) + LiveCount(a)

\* C25: every existing producer listed in a joined message is eventually
\* announced to the observers as newProducer, once per listing and not more
\* often, whether joined arrives before, during or after loading, once a load
\* has succeeded.
C25_ExistingEventuallyAnnounced ==
    /\ (hist.ready > 0) ~> AllObserved
    /\ [](\A a \in Announcements :
            ObservedCount(a) <= ListedCount(a) + LiveCount(a))

\* C26: every newProducer notification the observers receive is delivered
\* while the capability state is Ready.
C26_AnnouncedWhenReady ==
    \A i \in 1..Len(hist.seen) :
        hist.seen[i].event = "newProducer" => hist.seen[i].cap = "Ready"

\* How often the server sent a, in a joined list or live.
SentCount(a) == ListedCount(a) + LiveCount(a)

\* C27: the observers receive the newProducer notifications in the order in
\* which the server sent the announcements: of two announcements the server
\* sent once each, the one the observers got first was sent first.
C27_AnnouncedInServerOrder ==
    \A i, j \in 1..Len(hist.seen) :
        (/\ i < j
         /\ hist.seen[i].event = "newProducer"
         /\ hist.seen[j].event = "newProducer"
         /\ hist.seen[i].arg # hist.seen[j].arg
         /\ SentCount(hist.seen[i].arg) = 1
         /\ SentCount(hist.seen[j].arg) = 1)
            => \E k, l \in 1..Len(hist.server) :
                   /\ k < l
                   /\ hist.server[k].item = hist.seen[i].arg
                   /\ hist.server[l].item = hist.seen[j].arg


\* ------------------------------------------------------- reply routing
\* C28: every reply handed to a one-shot listener of a consumeTrack call
\* answers that call's own request, and a call that resolved to a track got
\* the consumed reply to its own consume request, on a transport of its
\* participant.
C28_RepliesReachTheirCall ==
    /\ \A e \in hist.handed : e.request = e.call
    /\ \A k \in 1..Len(consumeQueue) :
          consumeQueue[k].res = "track" =>
              /\ [event |-> "consumed", request |-> k, call |-> k] \in hist.handed
              /\ transports[consumeQueue[k].tr].key = consumeQueue[k].p

ConsumerReplies ==
    {"consumerTransportCreated", "consumerTransportConnected", "consumed"}

\* C29: at most one one-shot listener is registered for each consumer-side
\* reply type.
C29_OneListenerPerReply ==
    \A e \in ConsumerReplies :
        Cardinality({ i \in 1..Len(eventHandlers[e]) : eventHandlers[e][i].once }) <= 1


\* ------------------------------------------------------- termination
\* The capability state is Ready and no call went past its device check while
\* the Device was still loading.
CallsRanReady ==
    /\ device \in devLoaded
    /\ \A k \in 1..Len(consumeQueue) : consumeQueue[k].chk # "Loading"

AllResolved ==
    \A k \in 1..Len(consumeQueue) : consumeQueue[k].res # "pending"

C31_NoProduceOnClosedTransport ==
    [][ (hist.disconnects >= 1 /\ Len(produceCalls') = Len(produceCalls) + 1) =>
          LET call == produceCalls'[Len(produceCalls')]
          IN  \/ call.err = "Device not initialized"
              \/ /\ call.st = "awaitPT"
                 /\ \E i \in 1..Len(eventHandlers'["producerTransportCreated"]) :
                      /\ eventHandlers'["producerTransportCreated"][i].role = "createProducerTransport"
                      /\ eventHandlers'["producerTransportCreated"][i].owner = Len(produceCalls')
      ]_vars

====
